---- MODULE Spec2Model ----
(***************************************************************************)
(* A model of the Pico container engine (src/src/file.rs, crypt.rs,        *)
(* intbytes.rs, constants.rs): the header codec, the offset bookkeeping,   *)
(* the position-keyed XOR cipher and the lazily recomputed content hash.   *)
(*                                                                         *)
(* The byte store is a std::fs::File as the tests and the command line use *)
(* it: a byte sequence with one cursor; a read returns the bytes that      *)
(* exist, a write past the end fills the gap with zeros, and a write of    *)
(* zero bytes changes nothing.                                             *)
(***************************************************************************)
EXTENDS Integers, Sequences, FiniteSets, TLC

VARIABLES
    file,       \* the bytes of the underlying store
    fpos,       \* the cursor of the store handle
    alive,      \* TRUE while the caller holds a Pico value
    pico,       \* the fields of struct Pico (meaningful while alive)
    last,       \* the most recent call: arguments, result, buffer after it
    calls,      \* how many method calls the caller has made (open not counted)
    prevPutMd,  \* history: the successful put_metadata that immediately precedes
    mdWritten,  \* history: store offsets ever written by put_metadata
    scen,       \* history: progress of put -> get and put -> flush -> open -> get
    loop,       \* check_hash taken step by step: position, chunk buffer, digest input
    split,      \* a plaintext written by several puts and read back by several gets
    race,       \* two threads on one store handle: where each is in its operation
    cstage,     \* crypt harness: how many times crypt has been applied
    cpos,       \* crypt harness: position argument
    ckey,       \* crypt harness: key argument
    cdata0,     \* crypt harness: the buffer before the first call
    cdata,      \* crypt harness: the buffer now
    cpanic      \* crypt harness: crypt panicked

vars == <<file, fpos, alive, pico, last, calls, prevPutMd, mdWritten, scen, loop, split, race,
          cstage, cpos, ckey, cdata0, cdata, cpanic>>

containerVars == <<file, fpos, alive, pico, last, calls, prevPutMd, mdWritten, scen, loop,
                   split, race>>

cryptVars == <<cstage, cpos, ckey, cdata0, cdata, cpanic>>

----------------------------------------------------------------------------
(* Bounds of the model. *)

\* longest data region of the stores check_hash is stepped through
MaxData == 12

\* longest buffer handed to put and put_metadata
MaxLen == 2

\* largest position / start argument
MaxPos == 1

\* most method calls made on the containers of one store, new included;
\* dropping the container and opening the store again is not counted
MaxCalls == 4

\* longest buffer handed to crypt in the crypt harness
MaxCryptLen == 4

\* largest position handed to crypt in the crypt harness
MaxCryptPos == 2

----------------------------------------------------------------------------
(* Constants of the program. *)

MAGIC == 37312

MAJOR == 1

MINOR == 0

HASH_LEN == 16

KEY_POS == 28

\* 4096 in constants.rs; scaled down so that data regions shorter than,
\* equal to and longer than one chunk all occur
CHUNK_SIZE == 4

\* the range of the u16 fields (major, minor, key length)
U16 == 65536

----------------------------------------------------------------------------
(* Helpers. *)

Min(a, b) == IF a < b THEN a ELSE b

Max(a, b) == IF a > b THEN a ELSE b

Zeros(n) == [i \in 1..n |-> 0]

(* Wide numbers.  A u32 or usize value that may exceed the 32-bit integers *)
(* of TLC is a pair <<hi, lo>> standing for hi * 2^16 + lo, 0 <= lo < 2^16. *)

W(n) == <<n \div U16, n % U16>>

WAdd(a, b) == <<a[1] + b[1] + ((a[2] + b[2]) \div U16), (a[2] + b[2]) % U16>>

\* a - b for a >= b
WSub(a, b) ==
    IF a[2] < b[2] THEN <<a[1] - b[1] - 1, a[2] - b[2] + U16>>
    ELSE <<a[1] - b[1], a[2] - b[2]>>

\* a comparison that also holds for equal numbers
WLessOrEqual(a, b) == a[1] < b[1] \/ (a[1] = b[1] /\ a[2] <= b[2])

WLess(a, b) == a[1] < b[1] \/ (a[1] = b[1] /\ a[2] < b[2])

\* the value does not fit a u32
WOverflowsU32(a) == a[1] >= U16

\* the cast "as u32"
WAsU32(a) == <<a[1] % U16, a[2]>>

\* the value as a plain integer, for values below 2^30
WInt(a) == a[1] * U16 + a[2]

\* min(a, n) as a plain integer, for a wide a and a plain n
WMinInt(a, n) == IF WLess(a, W(n)) THEN WInt(a) ELSE n

\* the cursor value of a call that did not touch the store
NoAt == <<-1, 0>>

Bit(a, k) == (a \div (2^k)) % 2

\* the ^ operator of u8, bit by bit
XorBits(a, b) ==
    ((Bit(a,0) + Bit(b,0)) % 2)
  + 2   * ((Bit(a,1) + Bit(b,1)) % 2)
  + 4   * ((Bit(a,2) + Bit(b,2)) % 2)
  + 8   * ((Bit(a,3) + Bit(b,3)) % 2)
  + 16  * ((Bit(a,4) + Bit(b,4)) % 2)
  + 32  * ((Bit(a,5) + Bit(b,5)) % 2)
  + 64  * ((Bit(a,6) + Bit(b,6)) % 2)
  + 128 * ((Bit(a,7) + Bit(b,7)) % 2)

\* the ^ operator of u8
Xor(a, b) == IF a = 0 THEN b ELSE IF b = 0 THEN a ELSE IF a = b THEN 0 ELSE XorBits(a, b)

\* all sequences over S of length at most n
RECURSIVE SeqsUpTo(_, _)
SeqsUpTo(S, n) ==
    IF n = 0 THEN {<<>>}
    ELSE LET shorter == SeqsUpTo(S, n - 1)
         IN  shorter \cup {Append(s, x) : s \in {t \in shorter : Len(t) = n - 1}, x \in S}

----------------------------------------------------------------------------
(* crypt.rs *)

\* crypt with a wrapping addition of the key byte in place of the XOR
crypt_adds_key(position, data, key) ==
    [index \in 1..Len(data) |->
        (data[index] + key[(((index - 1) + position) % Len(key)) + 1]) % 256]

\* crypt with the key indexed by the buffer index alone
crypt_ignores_position(position, data, key) ==
    [index \in 1..Len(data) |-> Xor(data[index], key[((index - 1) % Len(key)) + 1])]

\* crypt: the buffer after the in-place XOR; the caller checks the key first
crypt(position, data, key) ==
    [index \in 1..Len(data) |->
        Xor(data[index], key[(((index - 1) + position) % Len(key)) + 1])]

\* the panic of crypt on a zero length key
crypt_panics(key) == Len(key) = 0

----------------------------------------------------------------------------
(* intbytes.rs and the decoders of open *)

get_bytes_u16(x) == <<(x \div 256) % 256, x % 256>>

\* x is a wide number
get_bytes_u32(x) ==
    <<(x[1] \div 256) % 256, x[1] % 256, (x[2] \div 256) % 256, x[2] % 256>>

tou16(buf) == buf[1] * 256 + buf[2]

\* the result is a wide number
tou32(buf) == <<buf[1] * 256 + buf[2], buf[3] * 256 + buf[4]>>

----------------------------------------------------------------------------
(* The store primitives. *)

\* Read::read: how many bytes a read of n bytes at cursor p (wide) returns
ReadCount(f, p, n) == IF ~WLess(p, W(Len(f))) THEN 0 ELSE Min(n, Len(f) - WInt(p))

\* Read::read: the buffer after the read (bytes past the count keep their value)
ReadInto(f, p, buf) ==
    LET c == ReadCount(f, p, Len(buf))
    IN  [i \in 1..Len(buf) |-> IF i <= c THEN f[WInt(p) + i] ELSE buf[i]]

\* Write::write: the store after writing bytes at cursor p (wide, below 2^30)
WriteAt(f, p, bytes) ==
    IF Len(bytes) = 0 THEN f
    ELSE [i \in 1..Max(Len(f), WInt(p) + Len(bytes)) |->
            IF i > WInt(p) /\ i <= WInt(p) + Len(bytes) THEN bytes[i - WInt(p)]
            ELSE IF i <= Len(f) THEN f[i] ELSE 0]

\* the cursor after reading or writing n bytes at p
Advance(p, n) == WAdd(p, W(n))

----------------------------------------------------------------------------
(* The digest primitive (crate md5), kept abstract: 16 bytes made of the   *)
(* length of the input and of position-weighted sums of its bytes,         *)
(* arranged so that the digest of the empty input is the MD5 of the empty  *)
(* string (the value hash_test expects).  Inputs of different length, and  *)
(* inputs of up to 14 bytes that differ anywhere, have different digests.  *)

EmptyDigest ==
    <<212, 29, 140, 217, 143, 0, 178, 4, 233, 128, 9, 152, 236, 248, 66, 126>>

\* the sum over the bytes of s at the indices i, i + 14, i + 28, ...
RECURSIVE Lane(_, _)
Lane(s, i) ==
    IF i > Len(s) THEN 0
    ELSE ((s[i] + 1) * (1 + 2 * ((i - 1) \div 14)) + Lane(s, i + 14)) % 256

\* md5::Context::new, consume, compute over the consumed bytes s
Md5(s) ==
    [i \in 1..HASH_LEN |->
        Xor(EmptyDigest[i],
            IF i = 1 THEN (Len(s) \div 256) % 256
            ELSE IF i = 2 THEN Len(s) % 256
            ELSE Lane(s, i - 2))]

----------------------------------------------------------------------------
(* file.rs: struct Pico and its methods, as functions of the container p,   *)
(* the store bytes f and the cursor fp.  Every method returns a record     *)
(*   status  "ok", "err" or "panic"                                        *)
(*   err     the PicoError variant ("" when there is none)                 *)
(*   count   the Ok value                                                  *)
(*   buf     the caller's buffer after the call                            *)
(*   at      the store offset the method read or wrote at (NoAt: none)     *)
(*   fed     the bytes handed to the digest (flush only)                   *)
(*   file, fpos, pico   the store and the container after the call         *)
(* offset, md_length and the cursor are wide numbers.                      *)

Result(st, er, cnt, b, a, fd, f, fp, p) ==
    [status |-> st, err |-> er, count |-> cnt, buf |-> b, at |-> a, fed |-> fd,
     file |-> f, fpos |-> fp, pico |-> p]

\* a Pico value with nothing in it, held in the variable while not alive
NoPico ==
    [major |-> 0, minor |-> 0, offset |-> W(0), hash |-> Zeros(HASH_LEN), key |-> <<>>,
     is_hash_valid |-> FALSE, md_start |-> 0, md_length |-> W(0)]

get_offset(p) == p.offset

\* get_hash that hands out the digest of no data while the hash is invalid
get_hash_of_nothing(p) == IF p.is_hash_valid THEN p.hash ELSE EmptyDigest

get_hash(p) == p.hash

get_key(p) == p.key

get_md_length(p) == WAsU32(p.md_length)

\* the bytes write_header writes, in the order it writes them
header_bytes(p) ==
    get_bytes_u16(MAGIC) \o get_bytes_u16(p.major) \o get_bytes_u16(p.minor)
        \o get_bytes_u32(get_offset(p)) \o get_hash(p)
        \o get_bytes_u16(Len(get_key(p)) % U16) \o get_key(p)

\* write_header: seek to 0, then seven writes one after the other
write_header(p, f) ==
    [file |-> WriteAt(f, W(0), header_bytes(p)), fpos |-> W(Len(header_bytes(p)))]

\* Pico::new that marks the all-zero hash as valid
new_marks_valid(f, key, md_length, wraps) ==
    LET md_start == Len(key) + KEY_POS
        sum == WAdd(WAsU32(W(md_start)), md_length)
        p == [major |-> MAJOR, minor |-> MINOR, offset |-> WAsU32(sum),
              hash |-> Zeros(HASH_LEN), is_hash_valid |-> TRUE, key |-> key,
              md_start |-> md_start, md_length |-> md_length]
        w == write_header(p, f)
    IN  IF WOverflowsU32(sum) /\ ~wraps
        THEN Result("panic", "", 0, <<>>, NoAt, <<>>, f, W(0), NoPico)
        ELSE Result("ok", "", 0, <<>>, W(0), <<>>, w.file, w.fpos, p)

\* Pico::new; wraps says whether the build wraps on u32 overflow (release)
\* or panics (debug)
new(f, key, md_length, wraps) ==
    LET md_start == Len(key) + KEY_POS
        sum == WAdd(WAsU32(W(md_start)), md_length)
        p == [major |-> MAJOR, minor |-> MINOR, offset |-> WAsU32(sum),
              hash |-> Zeros(HASH_LEN), is_hash_valid |-> FALSE, key |-> key,
              md_start |-> md_start, md_length |-> md_length]
        w == write_header(p, f)
    IN  IF WOverflowsU32(sum) /\ ~wraps
        THEN Result("panic", "", 0, <<>>, NoAt, <<>>, f, W(0), NoPico)
        ELSE Result("ok", "", 0, <<>>, W(0), <<>>, w.file, w.fpos, p)

\* open that also rejects a minor above MINOR
open_gates_minor(f, fp) ==
    LET b1 == ReadInto(f, fp, <<0, 0>>)
        p1 == Advance(fp, ReadCount(f, fp, 2))
        magic == tou16(b1)
        b2 == ReadInto(f, p1, b1)
        p2 == Advance(p1, ReadCount(f, p1, 2))
        major == tou16(b2)
        b3 == ReadInto(f, p2, b2)
        p3 == Advance(p2, ReadCount(f, p2, 2))
        minor == tou16(b3)
        b4 == ReadInto(f, p3, <<0, 0, 0, 0>>)
        p4 == Advance(p3, ReadCount(f, p3, 4))
        offset == tou32(b4)
        hash == ReadInto(f, p4, Zeros(HASH_LEN))
        p5 == Advance(p4, ReadCount(f, p4, HASH_LEN))
        b6 == ReadInto(f, p5, b3)
        p6 == Advance(p5, ReadCount(f, p5, 2))
        keylen == tou16(b6)
        key == ReadInto(f, p6, Zeros(keylen))
        p7 == Advance(p6, ReadCount(f, p6, keylen))
        md_start == KEY_POS + keylen
        p == [major |-> major, minor |-> minor, offset |-> offset, key |-> key,
              hash |-> hash, md_length |-> WSub(offset, W(md_start)),
              md_start |-> md_start, is_hash_valid |-> TRUE]
    IN  IF magic # MAGIC
        THEN Result("err", "NotPico", magic, <<>>, fp, <<>>, f, p1, NoPico)
        ELSE IF major > MAJOR \/ minor > MINOR
        THEN Result("err", "BadVersion", major, <<>>, W(minor), <<>>, f, p3, NoPico)
        ELSE IF keylen = 0
        THEN Result("err", "KeyError", 0, <<>>, fp, <<>>, f, p6, NoPico)
        ELSE IF WLess(offset, W(md_start))
        THEN Result("err", "BadOffset", md_start, <<>>, offset, <<>>, f, p7, NoPico)
        ELSE Result("ok", "", 0, <<>>, fp, <<>>, f, p7, p)

\* open that checks the offset before the key length
open_offset_before_key(f, fp) ==
    LET b1 == ReadInto(f, fp, <<0, 0>>)
        p1 == Advance(fp, ReadCount(f, fp, 2))
        magic == tou16(b1)
        b2 == ReadInto(f, p1, b1)
        p2 == Advance(p1, ReadCount(f, p1, 2))
        major == tou16(b2)
        b3 == ReadInto(f, p2, b2)
        p3 == Advance(p2, ReadCount(f, p2, 2))
        minor == tou16(b3)
        b4 == ReadInto(f, p3, <<0, 0, 0, 0>>)
        p4 == Advance(p3, ReadCount(f, p3, 4))
        offset == tou32(b4)
        hash == ReadInto(f, p4, Zeros(HASH_LEN))
        p5 == Advance(p4, ReadCount(f, p4, HASH_LEN))
        b6 == ReadInto(f, p5, b3)
        p6 == Advance(p5, ReadCount(f, p5, 2))
        keylen == tou16(b6)
        key == ReadInto(f, p6, Zeros(keylen))
        p7 == Advance(p6, ReadCount(f, p6, keylen))
        md_start == KEY_POS + keylen
        p == [major |-> major, minor |-> minor, offset |-> offset, key |-> key,
              hash |-> hash, md_length |-> WSub(offset, W(md_start)),
              md_start |-> md_start, is_hash_valid |-> TRUE]
    IN  IF magic # MAGIC
        THEN Result("err", "NotPico", magic, <<>>, fp, <<>>, f, p1, NoPico)
        ELSE IF major > MAJOR
        THEN Result("err", "BadVersion", major, <<>>, W(minor), <<>>, f, p3, NoPico)
        ELSE IF WLess(offset, W(md_start))
        THEN Result("err", "BadOffset", md_start, <<>>, offset, <<>>, f, p7, NoPico)
        ELSE IF keylen = 0
        THEN Result("err", "KeyError", 0, <<>>, fp, <<>>, f, p6, NoPico)
        ELSE Result("ok", "", 0, <<>>, fp, <<>>, f, p7, p)

\* Pico::open on a handle whose cursor is at fp.  An error carries its fields
\* in count and at: NotPico(count), BadVersion(count, at), BadOffset(at, count)
open(f, fp) ==
    LET b1 == ReadInto(f, fp, <<0, 0>>)
        p1 == Advance(fp, ReadCount(f, fp, 2))
        magic == tou16(b1)
        b2 == ReadInto(f, p1, b1)
        p2 == Advance(p1, ReadCount(f, p1, 2))
        major == tou16(b2)
        b3 == ReadInto(f, p2, b2)
        p3 == Advance(p2, ReadCount(f, p2, 2))
        minor == tou16(b3)
        b4 == ReadInto(f, p3, <<0, 0, 0, 0>>)
        p4 == Advance(p3, ReadCount(f, p3, 4))
        offset == tou32(b4)
        hash == ReadInto(f, p4, Zeros(HASH_LEN))
        p5 == Advance(p4, ReadCount(f, p4, HASH_LEN))
        b6 == ReadInto(f, p5, b3)
        p6 == Advance(p5, ReadCount(f, p5, 2))
        keylen == tou16(b6)
        key == ReadInto(f, p6, Zeros(keylen))
        p7 == Advance(p6, ReadCount(f, p6, keylen))
        md_start == KEY_POS + keylen
        p == [major |-> major, minor |-> minor, offset |-> offset, key |-> key,
              hash |-> hash, md_length |-> WSub(offset, W(md_start)),
              md_start |-> md_start, is_hash_valid |-> TRUE]
    IN  IF magic # MAGIC
        THEN Result("err", "NotPico", magic, <<>>, fp, <<>>, f, p1, NoPico)
        ELSE IF major > MAJOR
        THEN Result("err", "BadVersion", major, <<>>, W(minor), <<>>, f, p3, NoPico)
        ELSE IF keylen = 0
        THEN Result("err", "KeyError", 0, <<>>, fp, <<>>, f, p6, NoPico)
        ELSE IF WLess(offset, W(md_start))
        THEN Result("err", "BadOffset", md_start, <<>>, offset, <<>>, f, p7, NoPico)
        ELSE Result("ok", "", 0, <<>>, fp, <<>>, f, p7, p)

\* get_metadata that seeks to the start of the metadata whatever start is
get_metadata_from_region_start(p, f, fp, start, buffer) ==
    LET mdlen == get_md_length(p)
        true_offset == W(p.md_start)
        max == WMinInt(WSub(mdlen, W(start)), Len(buffer))
        count == ReadCount(f, true_offset, max)
        head == ReadInto(f, true_offset, SubSeq(buffer, 1, max))
    IN  IF mdlen = W(0) \/ ~WLess(W(start), mdlen)
        THEN Result("ok", "", 0, buffer, NoAt, <<>>, f, fp, p)
        ELSE Result("ok", "", count,
                    head \o SubSeq(buffer, max + 1, Len(buffer)),
                    true_offset, <<>>, f, Advance(true_offset, count), p)

\* Pico::get_metadata
get_metadata(p, f, fp, start, buffer) ==
    LET mdlen == get_md_length(p)
        true_offset == W(start + p.md_start)
        max == WMinInt(WSub(mdlen, W(start)), Len(buffer))
        count == ReadCount(f, true_offset, max)
        head == ReadInto(f, true_offset, SubSeq(buffer, 1, max))
    IN  IF mdlen = W(0) \/ ~WLess(W(start), mdlen)
        THEN Result("ok", "", 0, buffer, NoAt, <<>>, f, fp, p)
        ELSE Result("ok", "", count,
                    head \o SubSeq(buffer, max + 1, Len(buffer)),
                    true_offset, <<>>, f, Advance(true_offset, count), p)

\* put_metadata that writes the whole buffer whatever room is left
put_metadata_unclamped(p, f, fp, start, buffer) ==
    LET mdlen == get_md_length(p)
        true_offset == W(start + p.md_start)
        max == Len(buffer)
    IN  IF mdlen = W(0) \/ ~WLess(W(start), mdlen)
        THEN Result("ok", "", 0, buffer, NoAt, <<>>, f, fp, p)
        ELSE IF max <= 0
        THEN Result("ok", "", 0, buffer, NoAt, <<>>, f, fp, p)
        ELSE Result("ok", "", max, buffer, true_offset, <<>>,
                    WriteAt(f, true_offset, SubSeq(buffer, 1, max)),
                    Advance(true_offset, max), p)

\* put_metadata that passes the bytes through the cipher as put does
put_metadata_sealed(p, f, fp, start, buffer) ==
    LET mdlen == get_md_length(p)
        true_offset == W(start + p.md_start)
        max == WMinInt(WSub(mdlen, W(start)), Len(buffer))
    IN  IF mdlen = W(0) \/ ~WLess(W(start), mdlen)
        THEN Result("ok", "", 0, buffer, NoAt, <<>>, f, fp, p)
        ELSE IF max <= 0
        THEN Result("ok", "", 0, buffer, NoAt, <<>>, f, fp, p)
        ELSE Result("ok", "", max, buffer, true_offset, <<>>,
                    WriteAt(f, true_offset, crypt(start, SubSeq(buffer, 1, max), p.key)),
                    Advance(true_offset, max), p)

\* put_metadata that marks the hash invalid when it has written something
put_metadata_invalidating(p, f, fp, start, buffer) ==
    LET mdlen == get_md_length(p)
        true_offset == W(start + p.md_start)
        max == WMinInt(WSub(mdlen, W(start)), Len(buffer))
    IN  IF mdlen = W(0) \/ ~WLess(W(start), mdlen)
        THEN Result("ok", "", 0, buffer, NoAt, <<>>, f, fp, p)
        ELSE IF max <= 0
        THEN Result("ok", "", 0, buffer, NoAt, <<>>, f, fp, p)
        ELSE Result("ok", "", max, buffer, true_offset, <<>>,
                    WriteAt(f, true_offset, SubSeq(buffer, 1, max)),
                    Advance(true_offset, max), [p EXCEPT !.is_hash_valid = FALSE])

\* Pico::put_metadata
put_metadata(p, f, fp, start, buffer) ==
    LET mdlen == get_md_length(p)
        true_offset == W(start + p.md_start)
        max == WMinInt(WSub(mdlen, W(start)), Len(buffer))
    IN  IF mdlen = W(0) \/ ~WLess(W(start), mdlen)
        THEN Result("ok", "", 0, buffer, NoAt, <<>>, f, fp, p)
        ELSE IF max <= 0
        THEN Result("ok", "", 0, buffer, NoAt, <<>>, f, fp, p)
        ELSE Result("ok", "", max, buffer, true_offset, <<>>,
                    WriteAt(f, true_offset, SubSeq(buffer, 1, max)),
                    Advance(true_offset, max), p)

\* get that decrypts as if the buffer came from data position 0
get_keyed_from_zero(p, f, fp, position, buffer) ==
    LET true_offset == WAdd(W(position), get_offset(p))
        count == ReadCount(f, true_offset, Len(buffer))
        filled == ReadInto(f, true_offset, buffer)
    IN  IF crypt_panics(get_key(p))
        THEN Result("panic", "", 0, filled, true_offset, <<>>, f,
                    Advance(true_offset, count), p)
        ELSE Result("ok", "", count, crypt(0, filled, get_key(p)),
                    true_offset, <<>>, f, Advance(true_offset, count), p)

\* Pico::get
get(p, f, fp, position, buffer) ==
    LET true_offset == WAdd(W(position), get_offset(p))
        count == ReadCount(f, true_offset, Len(buffer))
        filled == ReadInto(f, true_offset, buffer)
    IN  IF crypt_panics(get_key(p))
        THEN Result("panic", "", 0, filled, true_offset, <<>>, f,
                    Advance(true_offset, count), p)
        ELSE Result("ok", "", count, crypt(position, filled, get_key(p)),
                    true_offset, <<>>, f, Advance(true_offset, count), p)

\* put that encrypts as if the buffer went to data position 0
put_keyed_from_zero(p, f, fp, position, buffer) ==
    LET true_offset == WAdd(W(position), get_offset(p))
        sealed == crypt(0, buffer, get_key(p))
    IN  IF crypt_panics(get_key(p))
        THEN Result("panic", "", 0, buffer, true_offset, <<>>, f, true_offset, p)
        ELSE Result("ok", "", Len(buffer), sealed, true_offset, <<>>,
                    WriteAt(f, true_offset, sealed),
                    Advance(true_offset, Len(buffer)), p)

\* Pico::put
put(p, f, fp, position, buffer) ==
    LET true_offset == WAdd(W(position), get_offset(p))
        sealed == crypt(position, buffer, get_key(p))
    IN  IF crypt_panics(get_key(p))
        THEN Result("panic", "", 0, buffer, true_offset, <<>>, f, true_offset, p)
        ELSE Result("ok", "", Len(buffer), sealed, true_offset, <<>>,
                    WriteAt(f, true_offset, sealed),
                    Advance(true_offset, Len(buffer)), p)

\* the loop of check_hash: the chunk buffer is reused from one get to the next
\* and the whole buffer is handed to the digest after every non-empty read
RECURSIVE check_hash_loop(_, _, _, _, _, _)
RECURSIVE check_hash_next(_, _, _, _, _)
check_hash_loop(p, f, fp, position, buffer, fed) ==
    check_hash_next(p, f, position, fed, get(p, f, fp, position, buffer))

\* one turn of the loop, g being what get returned: `?` leaves on a failure,
\* num == 0 breaks, otherwise consume the buffer and go on
check_hash_next(p, f, position, fed, g) ==
    IF g.status # "ok" THEN [g EXCEPT !.fed = fed]
    ELSE IF g.count = 0 THEN [g EXCEPT !.fed = fed]
    ELSE check_hash_loop(p, f, g.fpos, position + g.count, g.buf, fed \o g.buf)

\* the end of check_hash without the assignment to is_hash_valid
check_hash_end_leaves_invalid(p, f, l) ==
    IF l.status # "ok" THEN Result(l.status, l.err, 0, <<>>, l.at, l.fed, f, l.fpos, p)
    ELSE Result("ok", "", 0, <<>>, l.at, l.fed, f, l.fpos, [p EXCEPT !.hash = Md5(l.fed)])

\* the end of check_hash, l being what the loop left
check_hash_end(p, f, l) ==
    IF l.status # "ok"
    THEN Result(l.status, l.err, 0, <<>>, l.at, l.fed, f, l.fpos, p)
    ELSE Result("ok", "", 0, <<>>, l.at, l.fed, f, l.fpos,
                [p EXCEPT !.hash = Md5(l.fed), !.is_hash_valid = TRUE])

\* check_hash that recomputes whether or not the hash is valid
check_hash_always(p, f, fp) ==
    check_hash_end(p, f, check_hash_loop(p, f, fp, 0, Zeros(CHUNK_SIZE), <<>>))

\* Pico::check_hash
check_hash(p, f, fp) ==
    IF p.is_hash_valid
    THEN Result("ok", "", 0, <<>>, NoAt, <<>>, f, fp, p)
    ELSE check_hash_end(p, f, check_hash_loop(p, f, fp, 0, Zeros(CHUNK_SIZE), <<>>))

\* the end of flush, c being what check_hash returned
flush_end(c) ==
    LET w == write_header(c.pico, c.file)
    IN  IF c.status # "ok" THEN c
        ELSE Result("ok", "", 0, <<>>, W(0), c.fed, w.file, w.fpos, c.pico)

\* flush that writes the header before it recomputes the hash
flush_header_first(p, f, fp) ==
    check_hash(p, write_header(p, f).file, write_header(p, f).fpos)

\* Pico::flush
flush(p, f, fp) == flush_end(check_hash(p, f, fp))

----------------------------------------------------------------------------
(* The inputs the callers choose from. *)

\* keys handed to new: the empty key, and the key of crypt_test_3
Keys == {<<>>, <<64, 9>>}

\* a reserved metadata length with which 28 + key.len() + md_length = 2^32
\* for the two-byte key
HugeMd == WSub(<<U16, 0>>, W(KEY_POS + 2))

\* reserved metadata lengths handed to new
MdLengths == {W(0), W(2), HugeMd}

\* the arguments of new: the empty key without metadata, the two-byte key
\* with every length
NewInputs == {in \in Keys \X MdLengths : (in[1] = <<>>) => (in[2] = W(0))}

\* the bytes of the plaintext and metadata buffers (the data of crypt_test_3)
Pattern == <<9, 32, 224, 73, 41>>

\* buffers handed to put and put_metadata: empty, one byte, the longest
Buffers == {SubSeq(Pattern, 1, n) : n \in {0, 1, MaxLen}}

\* buffers handed to get: as long as the buffers of put, and long enough to
\* read from position 0 to the end of the longest put at the largest position;
\* every byte holds 0xAA before the call
ReadBuffers == {[i \in 1..n |-> 170] : n \in {0, 1, MaxLen, MaxPos + MaxLen}}

\* buffers handed to get_metadata
MdReadBuffers == {[i \in 1..n |-> 170] : n \in {1, MaxLen}}

\* data positions handed to get and put: the first and the largest
Positions == {0, MaxPos}

\* start indices handed to get_metadata and put_metadata
Starts == {0, 1, MaxPos + 1}

----------------------------------------------------------------------------
(* History kept for the properties. *)

NoPutMd == [valid |-> FALSE, start |-> 0, buf |-> <<>>, n |-> 0]

\* scen.stage follows the calls: "put" after a successful put, "put_get" when
\* a get follows that put at once, "flushed" when a successful flush follows
\* the put at once, "opened" when open follows that flush at once, "read" when
\* a get follows that open at once, and "idle" otherwise.  pos and plain are
\* the arguments of the put, byNew tells whether the container that took the
\* put came from new, hash is the hash the container held after the flush.
Idle == [stage |-> "idle", pos |-> 0, plain |-> <<>>, byNew |-> FALSE,
         hash |-> <<>>, origin |-> "none"]

IdleFrom(sc) == [Idle EXCEPT !.origin = sc.origin]

Call(op, pos, inbuf, r) ==
    [op |-> op, pos |-> pos, inbuf |-> inbuf, status |-> r.status, err |-> r.err,
     count |-> r.count, buf |-> r.buf, at |-> r.at, fed |-> r.fed,
     valid0 |-> pico.is_hash_valid]

\* no check_hash is under way
NoLoop == [stage |-> "idle", position |-> 0, buffer |-> <<>>, fed |-> <<>>, gets |-> 0]

\* no plaintext is being written in pieces
NoSplit == [stage |-> "idle", base |-> <<>>, position |-> 0, plain |-> <<>>,
            written |-> 0, read |-> <<>>, puts |-> <<>>, gets |-> <<>>]

\* the threads that share the store handle
RaceThreads == {1, 2}

\* a thread that has not begun its operation
NoThread == [pc |-> "idle", op |-> "", arg |-> 0, inbuf |-> <<>>, computed |-> NoAt,
             at |-> NoAt, cut |-> FALSE, buf |-> <<>>, count |-> 0]

\* no thread has begun; the callers use no lock
NoRace == [mutex |-> FALSE, holder |-> 0, thr |-> [t \in RaceThreads |-> NoThread]]

\* a panic unwinds the caller and drops the container with it
Survives(r) == r.status # "panic"

\* the store and the container after a call
Apply(op, pos, inbuf, r) ==
    /\ file' = r.file
    /\ fpos' = r.fpos
    /\ pico' = r.pico
    /\ last' = Call(op, pos, inbuf, r)
    /\ calls' = IF op = "open" THEN calls ELSE calls + 1
    /\ loop' = loop
    /\ split' = split
    /\ race' = race

----------------------------------------------------------------------------
(* The container: one action per public operation. *)

InitContainer ==
    /\ file = <<>>
    /\ fpos = W(0)
    /\ alive = FALSE
    /\ pico = NoPico
    /\ calls = 0
    /\ last = Call("init", 0, <<>>, Result("ok", "", 0, <<>>, NoAt, <<>>, <<>>, W(0), NoPico))
    /\ prevPutMd = NoPutMd
    /\ mdWritten = {}
    /\ scen = Idle
    /\ loop = NoLoop
    /\ split = NoSplit
    /\ race = NoRace

InitCryptIdle ==
    /\ cstage = 0
    /\ cpos = 0
    /\ ckey = <<0>>
    /\ cdata0 = <<>>
    /\ cdata = <<>>
    /\ cpanic = FALSE

Init == InitContainer /\ InitCryptIdle

\* the caller creates a file and calls Pico::new on it
New ==
    /\ last.op = "init"
    /\ \E in \in NewInputs, wraps \in BOOLEAN :
          LET r == new(file, in[1], in[2], wraps)
          IN  /\ Apply("new", 0, in[1], r)
              /\ alive' = Survives(r)
    /\ scen' = [Idle EXCEPT !.origin = "new"]
    /\ prevPutMd' = NoPutMd
    /\ UNCHANGED <<mdWritten, cryptVars>>

\* the caller drops the container (if any), opens the same file again and
\* calls Pico::open on the fresh handle
Open ==
    /\ last.op # "init"
    /\ LET r == open(file, W(0))
       IN  /\ Apply("open", 0, <<>>, r)
           /\ alive' = (r.status = "ok")
    /\ scen' = IF scen.stage = "flushed"
               THEN [scen EXCEPT !.stage = "opened", !.origin = "open"]
               ELSE [Idle EXCEPT !.origin = "open"]
    /\ prevPutMd' = NoPutMd
    /\ UNCHANGED <<mdWritten, cryptVars>>

Flush ==
    /\ alive
    /\ calls < MaxCalls
    /\ LET r == flush(pico, file, fpos)
       IN  /\ Apply("flush", 0, <<>>, r)
           /\ alive' = Survives(r)
           /\ scen' = IF scen.stage = "put" /\ r.status = "ok"
                      THEN [scen EXCEPT !.stage = "flushed", !.hash = r.pico.hash]
                      ELSE IdleFrom(scen)
    /\ prevPutMd' = NoPutMd
    /\ UNCHANGED <<mdWritten, cryptVars>>

GetMetadata ==
    /\ alive
    /\ calls < MaxCalls
    /\ \E start \in Starts, buffer \in MdReadBuffers :
          Apply("get_metadata", start, buffer, get_metadata(pico, file, fpos, start, buffer))
    /\ prevPutMd' = IF last.op = "put_metadata" THEN prevPutMd ELSE NoPutMd
    /\ scen' = IdleFrom(scen)
    /\ UNCHANGED <<alive, mdWritten, cryptVars>>

PutMetadata ==
    /\ alive
    /\ calls < MaxCalls
    /\ \E start \in Starts, buffer \in Buffers :
          LET r == put_metadata(pico, file, fpos, start, buffer)
          IN  /\ Apply("put_metadata", start, buffer, r)
              /\ prevPutMd' = [valid |-> TRUE, start |-> start, buf |-> buffer, n |-> r.count]
              /\ mdWritten' = mdWritten \cup {WInt(r.at) + i : i \in 0..(r.count - 1)}
    /\ scen' = IdleFrom(scen)
    /\ UNCHANGED <<alive, cryptVars>>

Get ==
    /\ alive
    /\ calls < MaxCalls
    /\ \E position \in Positions, buffer \in ReadBuffers :
          LET r == get(pico, file, fpos, position, buffer)
          IN  /\ Apply("get", position, buffer, r)
              /\ alive' = Survives(r)
    /\ scen' = IF scen.stage = "put" THEN [scen EXCEPT !.stage = "put_get"]
               ELSE IF scen.stage = "opened" /\ last.status = "ok"
               THEN [scen EXCEPT !.stage = "read"]
               ELSE IdleFrom(scen)
    /\ prevPutMd' = NoPutMd
    /\ UNCHANGED <<mdWritten, cryptVars>>

Put ==
    /\ alive
    /\ calls < MaxCalls
    /\ \E position \in Positions, buffer \in Buffers :
          LET r == put(pico, file, fpos, position, buffer)
          IN  /\ Apply("put", position, buffer, r)
              /\ alive' = Survives(r)
              /\ scen' = IF r.status = "ok"
                         THEN [stage |-> "put", pos |-> position, plain |-> buffer,
                               byNew |-> (scen.origin = "new"), hash |-> <<>>,
                               origin |-> scen.origin]
                         ELSE IdleFrom(scen)
    /\ prevPutMd' = NoPutMd
    /\ UNCHANGED <<mdWritten, cryptVars>>

\* get_hash hands out a copy of the hash field
GetHash ==
    /\ alive
    /\ calls < MaxCalls
    /\ Apply("get_hash", 0, <<>>,
             Result("ok", "", 0, get_hash(pico), NoAt, <<>>, file, fpos, pico))
    /\ scen' = IdleFrom(scen)
    /\ prevPutMd' = NoPutMd
    /\ UNCHANGED <<alive, mdWritten, cryptVars>>

Next == New \/ Open \/ Flush \/ GetMetadata \/ PutMetadata \/ Get \/ Put \/ GetHash

Spec == Init /\ [][Next]_vars

----------------------------------------------------------------------------
(* open on stores the program did not write: every field of the header takes
   values on both sides of each check of open, and the store may end early. *)

GivenMagics == {MAGIC, MAGIC + 1}

GivenMajors == {0, MAJOR, MAJOR + 1}

GivenMinors == {MINOR, MINOR + 7}

GivenKeys == {<<>>, <<64>>, <<64, 9>>}

\* offsets below, at and above KEY_POS + key.len() for each key, and one that
\* needs the high half of the u32
GivenOffsets == {W(0), W(KEY_POS), W(KEY_POS + 1), W(KEY_POS + 2), W(KEY_POS + 4), <<1, 0>>}

GivenHash == [i \in 1..HASH_LEN |-> i]

\* bytes that follow the key
GivenTail == <<9, 32, 224>>

GivenHeader(magic, major, minor, offset, key) ==
    get_bytes_u16(magic) \o get_bytes_u16(major) \o get_bytes_u16(minor)
        \o get_bytes_u32(offset) \o GivenHash \o get_bytes_u16(Len(key)) \o key

\* the lengths a store is cut to: inside each field of the header, and whole
GivenCuts(n) == {0, 1, 3, 5, 9, 20, KEY_POS - 1, KEY_POS, n}

GivenStores ==
    UNION {{SubSeq(GivenHeader(in[1], in[2], in[3], in[4], in[5]) \o GivenTail, 1, c) :
               c \in GivenCuts(KEY_POS + Len(in[5]) + Len(GivenTail))} :
           in \in GivenMagics \X GivenMajors \X GivenMinors \X GivenOffsets \X GivenKeys}

\* the caller holds a file with some content and no container
InitOpen ==
    /\ file \in GivenStores
    /\ fpos = W(0)
    /\ alive = FALSE
    /\ pico = NoPico
    /\ calls = 0
    /\ last = Call("given", 0, <<>>, Result("ok", "", 0, <<>>, NoAt, <<>>, <<>>, W(0), NoPico))
    /\ prevPutMd = NoPutMd
    /\ mdWritten = {}
    /\ scen = Idle
    /\ loop = NoLoop
    /\ split = NoSplit
    /\ race = NoRace
    /\ InitCryptIdle

SpecOpen == InitOpen /\ [][Open]_vars

----------------------------------------------------------------------------
(* Failing stores.  Every call of a store primitive carries a number in the
   source (1001 to 1025) that the error handed to the caller holds.  A failure
   is named by that number: the operation runs up to the call, the call fails
   and changes nothing, and the operation returns the mapped error, which the
   result holds in err and count.  A result of status "skip" says that the
   operation does not get to that call.  The caller passes the error on and
   gives the container up; the file can be opened again. *)

\* the primitive called at each numbered call
SitePrimitive(id) ==
    IF id \in {1001, 1009} THEN "flush"
    ELSE IF id \in {1010, 1012, 1014, 1016, 1018} THEN "seek"
    ELSE IF id \in (1002..1008) \cup {1011, 1015} THEN "read"
    ELSE "write"

Skip(f, fp, p) == Result("skip", "", 0, <<>>, NoAt, <<>>, f, fp, p)

\* the seven items write_header writes, in order
header_items(p) ==
    <<get_bytes_u16(MAGIC), get_bytes_u16(p.major), get_bytes_u16(p.minor),
      get_bytes_u32(get_offset(p)), get_hash(p),
      get_bytes_u16(Len(get_key(p)) % U16), get_key(p)>>

RECURSIVE Concat(_)
Concat(ss) == IF ss = <<>> THEN <<>> ELSE Head(ss) \o Concat(Tail(ss))

\* write_header whose seek (1018) or one of whose writes (1019..1025) fails:
\* the items before the failing write are in the store
write_header_fails(p, f, fp, id) ==
    IF id = 1018
    THEN Result("err", "SeekFailed", id, <<>>, NoAt, <<>>, f, fp, p)
    ELSE Result("err", "WriteFailed", id, <<>>, W(0), <<>>,
                WriteAt(f, W(0), Concat(SubSeq(header_items(p), 1, id - 1019))),
                W(Len(Concat(SubSeq(header_items(p), 1, id - 1019)))), p)

\* Pico::new on a store that fails: no container is returned
new_fails(f, key, md_length, wraps, id) ==
    LET md_start == Len(key) + KEY_POS
        sum == WAdd(WAsU32(W(md_start)), md_length)
        p == [major |-> MAJOR, minor |-> MINOR, offset |-> WAsU32(sum),
              hash |-> Zeros(HASH_LEN), is_hash_valid |-> FALSE, key |-> key,
              md_start |-> md_start, md_length |-> md_length]
    IN  IF WOverflowsU32(sum) /\ ~wraps
        THEN Skip(f, W(0), NoPico)
        ELSE IF id = 1001
        THEN Result("err", "WriteFailed", id, <<>>, W(0), <<>>,
                    write_header(p, f).file, write_header(p, f).fpos, NoPico)
        ELSE [write_header_fails(p, f, W(0), id) EXCEPT !.pico = NoPico]

\* Pico::open whose read number id - 1001 fails
open_fails(f, fp, id) ==
    LET b1 == ReadInto(f, fp, <<0, 0>>)
        p1 == Advance(fp, ReadCount(f, fp, 2))
        magic == tou16(b1)
        b2 == ReadInto(f, p1, b1)
        p2 == Advance(p1, ReadCount(f, p1, 2))
        major == tou16(b2)
        b3 == ReadInto(f, p2, b2)
        p3 == Advance(p2, ReadCount(f, p2, 2))
        p4 == Advance(p3, ReadCount(f, p3, 4))
        p5 == Advance(p4, ReadCount(f, p4, HASH_LEN))
        b6 == ReadInto(f, p5, b3)
        p6 == Advance(p5, ReadCount(f, p5, 2))
        keylen == tou16(b6)
        before == <<fp, p1, p2, p3, p4, p5, p6>>
        reached == \/ id = 1002
                   \/ /\ magic = MAGIC
                      /\ \/ id <= 1004
                         \/ /\ major <= MAJOR
                            /\ (id <= 1007 \/ keylen # 0)
    IN  IF reached
        THEN Result("err", "ReadFailed", id, <<>>, before[id - 1001], <<>>,
                    f, before[id - 1001], NoPico)
        ELSE Skip(f, fp, NoPico)

\* Pico::get whose seek (1014) or read (1015) fails
get_fails(p, f, fp, position, buffer, id) ==
    LET true_offset == WAdd(W(position), get_offset(p))
    IN  IF id = 1014
        THEN Result("err", "SeekFailed", id, buffer, NoAt, <<>>, f, fp, p)
        ELSE Result("err", "ReadFailed", id, buffer, true_offset, <<>>, f, true_offset, p)

\* Pico::put whose seek (1016) or write (1017) fails; the buffer has been
\* encrypted in place by the time of the write
put_fails(p, f, fp, position, buffer, id) ==
    LET true_offset == WAdd(W(position), get_offset(p))
    IN  IF id = 1016
        THEN Result("err", "SeekFailed", id, buffer, NoAt, <<>>, f, fp, p)
        ELSE IF crypt_panics(get_key(p))
        THEN Skip(f, fp, p)
        ELSE Result("err", "ReadFailed", id, crypt(position, buffer, get_key(p)),
                    true_offset, <<>>, f, true_offset, p)

\* Pico::get_metadata whose seek (1010) or read (1011) fails
get_metadata_fails(p, f, fp, start, buffer, id) ==
    LET mdlen == get_md_length(p)
        true_offset == W(start + p.md_start)
    IN  IF mdlen = W(0) \/ ~WLess(W(start), mdlen)
        THEN Skip(f, fp, p)
        ELSE IF id = 1010
        THEN Result("err", "SeekFailed", id, buffer, NoAt, <<>>, f, fp, p)
        ELSE Result("err", "ReadFailed", id, buffer, true_offset, <<>>, f, true_offset, p)

\* Pico::put_metadata whose seek (1012) or write (1013) fails
put_metadata_fails(p, f, fp, start, buffer, id) ==
    LET mdlen == get_md_length(p)
        true_offset == W(start + p.md_start)
        max == WMinInt(WSub(mdlen, W(start)), Len(buffer))
    IN  IF mdlen = W(0) \/ ~WLess(W(start), mdlen)
        THEN Skip(f, fp, p)
        ELSE IF max <= 0
        THEN Skip(f, fp, p)
        ELSE IF id = 1012
        THEN Result("err", "SeekFailed", id, buffer, NoAt, <<>>, f, fp, p)
        ELSE Result("err", "WriteFailed", id, buffer, true_offset, <<>>, f, true_offset, p)

\* flush after check_hash returned c: write_header or File::flush (1009) fails
flush_fails_late(c, id) ==
    IF c.status # "ok"
    THEN Skip(c.file, c.fpos, c.pico)
    ELSE IF id = 1009
    THEN Result("err", "WriteFailed", id, <<>>, W(0), c.fed,
                write_header(c.pico, c.file).file, write_header(c.pico, c.file).fpos, c.pico)
    ELSE [write_header_fails(c.pico, c.file, c.fpos, id) EXCEPT !.fed = c.fed]

\* a failing check_hash that stores the digest of what it had consumed
recompute_failed_stores_partial(p, g, fed) ==
    [g EXCEPT !.buf = <<>>, !.fed = fed, !.pico = [p EXCEPT !.hash = Md5(fed)]]

\* check_hash whose get failed with g after fed had been consumed: the error
\* goes up, the container is as it was
recompute_failed(p, g, fed) == [g EXCEPT !.buf = <<>>, !.fed = fed, !.pico = p]

\* the passes of the loop of check_hash that the model lets fail
Passes == 1..((MaxPos + MaxLen) \div CHUNK_SIZE + 2)

\* check_hash whose get number pass fails at its seek (1014) or read (1015);
\* the gets before it succeed
RECURSIVE check_hash_loop_fails(_, _, _, _, _, _, _, _)
RECURSIVE check_hash_next_fails(_, _, _, _, _, _, _)
check_hash_loop_fails(p, f, fp, position, buffer, fed, pass, id) ==
    IF pass = 1
    THEN recompute_failed(p, get_fails(p, f, fp, position, buffer, id), fed)
    ELSE check_hash_next_fails(p, f, position, fed, pass, id,
                               get(p, f, fp, position, buffer))

check_hash_next_fails(p, f, position, fed, pass, id, g) ==
    IF g.status # "ok" \/ g.count = 0
    THEN Skip(f, g.fpos, p)
    ELSE check_hash_loop_fails(p, f, g.fpos, position + g.count, g.buf,
                               fed \o g.buf, pass - 1, id)

\* Pico::flush on a store that fails: in get number pass of check_hash (1014,
\* 1015), in write_header (1018..1025) or in File::flush (1009)
flush_fails(p, f, fp, id, pass) ==
    IF id \in {1014, 1015}
    THEN IF p.is_hash_valid
         THEN Skip(f, fp, p)
         ELSE check_hash_loop_fails(p, f, fp, 0, Zeros(CHUNK_SIZE), <<>>, pass, id)
    ELSE IF pass # 1
    THEN Skip(f, fp, p)
    ELSE flush_fails_late(check_hash(p, f, fp), id)

\* the buffers handed to a call that fails: what a failing call does depends
\* on no byte of its buffer
FaultBuffer == SubSeq(Pattern, 1, MaxLen)

FaultReadBuffer == [i \in 1..MaxLen |-> 170]

NewFails ==
    /\ last.op = "init"
    /\ \E in \in NewInputs, wraps \in BOOLEAN, id \in {1001} \cup (1018..1025) :
          LET r == new_fails(file, in[1], in[2], wraps, id)
          IN  /\ r.status = "err"
              /\ Apply("new", 0, in[1], r)
    /\ alive' = FALSE
    /\ scen' = Idle
    /\ prevPutMd' = NoPutMd
    /\ UNCHANGED <<mdWritten, cryptVars>>

OpenFails ==
    /\ last.op # "init"
    /\ \E id \in 1002..1008 :
          LET r == open_fails(file, W(0), id)
          IN  /\ r.status = "err"
              /\ Apply("open", 0, <<>>, r)
    /\ alive' = FALSE
    /\ scen' = Idle
    /\ prevPutMd' = NoPutMd
    /\ UNCHANGED <<mdWritten, cryptVars>>

FlushFails ==
    /\ alive
    /\ calls < MaxCalls
    /\ \E id \in {1009, 1014, 1015} \cup (1018..1025), pass \in Passes :
          LET r == flush_fails(pico, file, fpos, id, pass)
          IN  /\ r.status = "err"
              /\ Apply("flush", 0, <<>>, r)
    /\ scen' = IdleFrom(scen)
    /\ prevPutMd' = NoPutMd
    /\ alive' = FALSE
    /\ UNCHANGED <<mdWritten, cryptVars>>

GetMetadataFails ==
    /\ alive
    /\ calls < MaxCalls
    /\ \E start \in Starts, buffer \in {FaultReadBuffer}, id \in {1010, 1011} :
          LET r == get_metadata_fails(pico, file, fpos, start, buffer, id)
          IN  /\ r.status = "err"
              /\ Apply("get_metadata", start, buffer, r)
    /\ scen' = IdleFrom(scen)
    /\ prevPutMd' = NoPutMd
    /\ alive' = FALSE
    /\ UNCHANGED <<mdWritten, cryptVars>>

PutMetadataFails ==
    /\ alive
    /\ calls < MaxCalls
    /\ \E start \in Starts, buffer \in {FaultBuffer}, id \in {1012, 1013} :
          LET r == put_metadata_fails(pico, file, fpos, start, buffer, id)
          IN  /\ r.status = "err"
              /\ Apply("put_metadata", start, buffer, r)
    /\ scen' = IdleFrom(scen)
    /\ prevPutMd' = NoPutMd
    /\ alive' = FALSE
    /\ UNCHANGED <<mdWritten, cryptVars>>

GetFails ==
    /\ alive
    /\ calls < MaxCalls
    /\ \E position \in Positions, buffer \in {FaultReadBuffer}, id \in {1014, 1015} :
          Apply("get", position, buffer, get_fails(pico, file, fpos, position, buffer, id))
    /\ scen' = IdleFrom(scen)
    /\ prevPutMd' = NoPutMd
    /\ alive' = FALSE
    /\ UNCHANGED <<mdWritten, cryptVars>>

PutFails ==
    /\ alive
    /\ calls < MaxCalls
    /\ \E position \in Positions, buffer \in {FaultBuffer}, id \in {1016, 1017} :
          LET r == put_fails(pico, file, fpos, position, buffer, id)
          IN  /\ r.status = "err"
              /\ Apply("put", position, buffer, r)
    /\ scen' = IdleFrom(scen)
    /\ prevPutMd' = NoPutMd
    /\ alive' = FALSE
    /\ UNCHANGED <<mdWritten, cryptVars>>

NextFaults ==
    \/ Next
    \/ NewFails \/ OpenFails \/ FlushFails \/ GetMetadataFails
    \/ PutMetadataFails \/ GetFails \/ PutFails

\* as Init, with one call of the caller's budget spent: a store that may fail
\* is followed for one call less than a store that does not
InitFaults ==
    /\ file = <<>>
    /\ fpos = W(0)
    /\ alive = FALSE
    /\ pico = NoPico
    /\ calls = 1
    /\ last = Call("init", 0, <<>>, Result("ok", "", 0, <<>>, NoAt, <<>>, <<>>, W(0), NoPico))
    /\ prevPutMd = NoPutMd
    /\ mdWritten = {}
    /\ scen = Idle
    /\ loop = NoLoop
    /\ split = NoSplit
    /\ race = NoRace
    /\ InitCryptIdle

SpecFaults == InitFaults /\ [][NextFaults]_vars

----------------------------------------------------------------------------
(* check_hash step by step, on containers from new whose data region holds
   up to MaxData bytes: one action per pass through the loop. *)

\* the plaintext put into the data region
DataPattern(n) == [i \in 1..n |-> (9 + 37 * i) % 256]

\* new(key, md_length) followed by put(0, DataPattern(n))
RecomputeInputs ==
    {in \in NewInputs \X (0..MaxData) :
        /\ in[1][2] # HugeMd
        /\ (in[1][1] = <<>>) => (in[2] = 0)}

StoreWithData(n, c) ==
    IF n = 0 THEN c.file ELSE put(c.pico, c.file, c.fpos, 0, DataPattern(n)).file

InitRecompute ==
    /\ \E in \in RecomputeInputs :
          /\ file = StoreWithData(in[2], new(<<>>, in[1][1], in[1][2], FALSE))
          /\ pico = new(<<>>, in[1][1], in[1][2], FALSE).pico
    /\ fpos = W(0)
    /\ alive = TRUE
    /\ calls = 0
    /\ last = Call("given", 0, <<>>, Result("ok", "", 0, <<>>, NoAt, <<>>, <<>>, W(0), NoPico))
    /\ prevPutMd = NoPutMd
    /\ mdWritten = {}
    /\ scen = Idle
    /\ loop = NoLoop
    /\ split = NoSplit
    /\ race = NoRace
    /\ InitCryptIdle

\* position = position + num without the addition
next_position_stuck(position, num) == position

\* position = position + num
next_position(position, num) == position + num

\* entry of check_hash: return if the hash is valid, else set up the loop
RecomputeEnter ==
    /\ alive
    /\ loop.stage = "idle"
    /\ loop' = IF pico.is_hash_valid
               THEN [NoLoop EXCEPT !.stage = "done"]
               ELSE [NoLoop EXCEPT !.stage = "loop", !.buffer = Zeros(CHUNK_SIZE)]
    /\ UNCHANGED <<file, fpos, alive, pico, last, calls, prevPutMd, mdWritten, scen, split, race, cryptVars>>

\* what a pass through the loop leaves, g being the result of its get
loop_after(g) ==
    IF g.status # "ok" THEN [loop EXCEPT !.stage = "panic", !.gets = loop.gets + 1]
    ELSE IF g.count = 0 THEN [loop EXCEPT !.stage = "hash", !.gets = loop.gets + 1]
    ELSE [loop EXCEPT !.position = next_position(loop.position, g.count),
                      !.buffer = g.buf,
                      !.fed = loop.fed \o g.buf,
                      !.gets = loop.gets + 1]

\* one pass through the loop: get, break on 0, else consume and advance
RecomputeGet ==
    /\ loop.stage = "loop"
    /\ LET g == get(pico, file, fpos, loop.position, loop.buffer)
       IN  /\ file' = g.file
           /\ fpos' = g.fpos
           /\ pico' = g.pico
           /\ last' = Call("get", loop.position, loop.buffer, g)
           /\ alive' = Survives(g)
           /\ loop' = loop_after(g)
    /\ UNCHANGED <<calls, prevPutMd, mdWritten, scen, split, race, cryptVars>>

\* after the loop: store the digest and mark it valid
RecomputeFinish ==
    /\ loop.stage = "hash"
    /\ pico' = [pico EXCEPT !.hash = Md5(loop.fed), !.is_hash_valid = TRUE]
    /\ loop' = [loop EXCEPT !.stage = "done"]
    /\ UNCHANGED <<file, fpos, alive, last, calls, prevPutMd, mdWritten, scen, split, race, cryptVars>>

NextRecompute == RecomputeEnter \/ RecomputeGet \/ RecomputeFinish

\* the caller's thread runs check_hash to its end
SpecRecompute == InitRecompute /\ [][NextRecompute]_vars /\ WF_vars(NextRecompute)

----------------------------------------------------------------------------
(* A caller that writes one plaintext with several puts at consecutive
   positions and reads it back with several gets at consecutive positions. *)

\* the longest plaintext written in pieces
MaxSplit == 3

\* the arguments of new, the length of the plaintext, the position of its first
\* byte, and how many bytes of data the store holds before
SplitInputs == NewInputs \X (1..MaxSplit) \X (0..MaxPos) \X {0, MaxSplit + MaxPos + 1}

InitSplit ==
    /\ \E in \in SplitInputs :
          /\ file = StoreWithData(in[4], new(<<>>, in[1][1], in[1][2], TRUE))
          /\ pico = new(<<>>, in[1][1], in[1][2], TRUE).pico
          /\ split = [NoSplit EXCEPT !.stage = "put",
                                     !.base = file,
                                     !.position = in[3],
                                     !.plain = SubSeq(Pattern, 1, in[2])]
    /\ fpos = W(0)
    /\ alive = TRUE
    /\ calls = 0
    /\ last = Call("given", 0, <<>>, Result("ok", "", 0, <<>>, NoAt, <<>>, <<>>, W(0), NoPico))
    /\ prevPutMd = NoPutMd
    /\ mdWritten = {}
    /\ scen = Idle
    /\ loop = NoLoop
    /\ race = NoRace
    /\ InitCryptIdle

\* what a put of a piece of k bytes leaves of the bookkeeping
split_after_put(r, k) ==
    IF r.status # "ok" THEN [split EXCEPT !.stage = "panic"]
    ELSE [split EXCEPT !.written = split.written + r.count,
                       !.puts = Append(split.puts, k),
                       !.stage = IF split.written + r.count = Len(split.plain)
                                 THEN "get" ELSE "put"]

\* put of the next k bytes of the plaintext at the position that follows the
\* bytes already written
SplitPut ==
    /\ alive
    /\ split.stage = "put"
    /\ \E k \in 1..(Len(split.plain) - split.written) :
          LET piece == SubSeq(split.plain, split.written + 1, split.written + k)
              r == put(pico, file, fpos, split.position + split.written, piece)
          IN  /\ file' = r.file
              /\ fpos' = r.fpos
              /\ pico' = r.pico
              /\ last' = Call("put", split.position + split.written, piece, r)
              /\ alive' = Survives(r)
              /\ split' = split_after_put(r, k)
    /\ UNCHANGED <<calls, prevPutMd, mdWritten, scen, loop, race, cryptVars>>

\* what a get into a buffer of k bytes leaves of the bookkeeping
split_after_get(g, k) ==
    IF g.status # "ok" THEN [split EXCEPT !.stage = "panic"]
    ELSE IF g.count = 0 THEN [split EXCEPT !.stage = "short"]
    ELSE [split EXCEPT !.read = split.read \o SubSeq(g.buf, 1, g.count),
                       !.gets = Append(split.gets, k),
                       !.stage = IF Len(split.read) + g.count = Len(split.plain)
                                 THEN "done" ELSE "get"]

\* get of the next k bytes at the position that follows the bytes already read
SplitGet ==
    /\ alive
    /\ split.stage = "get"
    /\ \E k \in 1..(Len(split.plain) - Len(split.read)) :
          LET buffer == [i \in 1..k |-> 170]
              g == get(pico, file, fpos, split.position + Len(split.read), buffer)
          IN  /\ file' = g.file
              /\ fpos' = g.fpos
              /\ pico' = g.pico
              /\ last' = Call("get", split.position + Len(split.read), buffer, g)
              /\ alive' = Survives(g)
              /\ split' = split_after_get(g, k)
    /\ UNCHANGED <<calls, prevPutMd, mdWritten, scen, loop, race, cryptVars>>

NextSplit == SplitPut \/ SplitGet

SpecSplit == InitSplit /\ [][NextSplit]_vars

----------------------------------------------------------------------------
(* Keys whose length does not fit the 16 bits of the key length field: new
   takes a Vec<u8> of any length. *)

\* the longest of the short keys
MaxShortKey == 20

\* key lengths handed to new: short ones, and the lengths around 2^16
LongKeyLengths == (1..MaxShortKey) \cup {U16 - 1, U16, U16 + 1}

\* a key of n bytes
KeyOfLength(n) == [i \in 1..n |-> (64 + 9 * i) % 256]

\* reserved metadata lengths handed to new with these keys
LongKeyMdLengths == {W(0), W(1), W(2)}

\* the caller creates a file and calls Pico::new on it with a key of any length
NewLongKey ==
    /\ last.op = "init"
    /\ \E n \in LongKeyLengths, md_length \in LongKeyMdLengths :
          LET r == new(file, KeyOfLength(n), md_length, FALSE)
          IN  /\ Apply("new", 0, KeyOfLength(n), r)
              /\ alive' = Survives(r)
    /\ scen' = [Idle EXCEPT !.origin = "new"]
    /\ prevPutMd' = NoPutMd
    /\ UNCHANGED <<mdWritten, cryptVars>>

NextLongKey == NewLongKey \/ Open

SpecLongKey == Init /\ [][NextLongKey]_vars

----------------------------------------------------------------------------
(* Two threads that call get, put, get_metadata and put_metadata through one
   store handle.  Each of these operations is a seek followed by a read or a
   write, two calls on the handle, and the handle has one cursor.  The callers
   either wrap each operation in a lock of their own or do not. *)

\* the operations a thread chooses from
RaceOps ==
    {[op |-> "get", arg |-> a, buffer |-> [i \in 1..MaxLen |-> 170]] : a \in Positions}
        \cup {[op |-> "put", arg |-> a, buffer |-> SubSeq(Pattern, 1, MaxLen)] :
                 a \in Positions}
        \cup {[op |-> "get_metadata", arg |-> a, buffer |-> [i \in 1..MaxLen |-> 170]] :
                 a \in Starts}
        \cup {[op |-> "put_metadata", arg |-> a, buffer |-> SubSeq(Pattern, 1, MaxLen)] :
                 a \in Starts}

\* the bytes get_metadata and put_metadata may touch from index start on
md_max(p, o) == WMinInt(WSub(get_md_length(p), W(o.arg)), Len(o.buffer))

\* whether operation o gets as far as its seek: get_metadata and put_metadata
\* return Ok(0) before when there is nothing to read or write
reaches_seek(p, o) ==
    IF o.op \in {"get", "put"} THEN TRUE
    ELSE /\ get_md_length(p) # W(0)
         /\ WLess(W(o.arg), get_md_length(p))
         /\ (o.op = "put_metadata") => (md_max(p, o) > 0)

\* the true offset operation o computes
true_offset(p, o) ==
    IF o.op \in {"get", "put"} THEN WAdd(W(o.arg), get_offset(p))
    ELSE W(o.arg + p.md_start)

\* a seek that takes the offset from the cursor, not from the start
seek_from_current(fp, offset) == WAdd(fp, offset)

\* Seek::seek(SeekFrom::Start(offset)): the cursor after it
seek_from_start(fp, offset) == offset

\* what follows the seek in operation o: the read or the write goes to the
\* cursor fp of the handle, wherever it is by then
access(p, f, fp, o) ==
    IF o.op = "get"
    THEN Result("ok", "", ReadCount(f, fp, Len(o.buffer)),
                crypt(o.arg, ReadInto(f, fp, o.buffer), get_key(p)), fp, <<>>, f,
                Advance(fp, ReadCount(f, fp, Len(o.buffer))), p)
    ELSE IF o.op = "put"
    THEN Result("ok", "", Len(o.buffer), crypt(o.arg, o.buffer, get_key(p)), fp, <<>>,
                WriteAt(f, fp, crypt(o.arg, o.buffer, get_key(p))),
                Advance(fp, Len(o.buffer)), p)
    ELSE IF o.op = "get_metadata"
    THEN Result("ok", "", ReadCount(f, fp, md_max(p, o)),
                ReadInto(f, fp, SubSeq(o.buffer, 1, md_max(p, o)))
                    \o SubSeq(o.buffer, md_max(p, o) + 1, Len(o.buffer)),
                fp, <<>>, f, Advance(fp, ReadCount(f, fp, md_max(p, o))), p)
    ELSE Result("ok", "", md_max(p, o), o.buffer, fp, <<>>,
                WriteAt(f, fp, SubSeq(o.buffer, 1, md_max(p, o))),
                Advance(fp, md_max(p, o)), p)

\* the other threads that are between their seek and their access have had
\* the cursor moved under them
Disturbed(t) ==
    [u \in RaceThreads |->
        IF u # t /\ race.thr[u].pc = "sought"
        THEN [race.thr[u] EXCEPT !.cut = TRUE]
        ELSE race.thr[u]]

\* a container with metadata and data, two threads about to use it, and the
\* callers' choice of locking
InitRace ==
    /\ file = StoreWithData(MaxPos + MaxLen, new(<<>>, <<64, 9>>, W(2), FALSE))
    /\ pico = new(<<>>, <<64, 9>>, W(2), FALSE).pico
    /\ fpos = W(0)
    /\ alive = TRUE
    /\ calls = 0
    /\ last = Call("given", 0, <<>>, Result("ok", "", 0, <<>>, NoAt, <<>>, <<>>, W(0), NoPico))
    /\ prevPutMd = NoPutMd
    /\ mdWritten = {}
    /\ scen = Idle
    /\ loop = NoLoop
    /\ split = NoSplit
    /\ \E m \in BOOLEAN : race = [NoRace EXCEPT !.mutex = m]
    /\ InitCryptIdle

\* a thread enters an operation: the early return, or the seek
RaceSeek ==
    /\ \E t \in RaceThreads, o \in RaceOps :
          /\ race.thr[t].pc = "idle"
          /\ race.mutex => (race.holder = 0)
          /\ IF reaches_seek(pico, o)
             THEN /\ fpos' = seek_from_start(fpos, true_offset(pico, o))
                  /\ race' = [race EXCEPT
                        !.holder = IF race.mutex THEN t ELSE 0,
                        !.thr = [Disturbed(t) EXCEPT
                            ![t] = [NoThread EXCEPT !.pc = "sought",
                                                    !.op = o.op,
                                                    !.arg = o.arg,
                                                    !.inbuf = o.buffer,
                                                    !.buf = o.buffer,
                                                    !.computed = true_offset(pico, o)]]]
             ELSE /\ fpos' = fpos
                  /\ race' = [race EXCEPT
                        !.thr[t] = [NoThread EXCEPT !.pc = "done",
                                                    !.op = o.op,
                                                    !.arg = o.arg,
                                                    !.inbuf = o.buffer,
                                                    !.buf = o.buffer]]
    /\ UNCHANGED <<file, alive, pico, last, calls, prevPutMd, mdWritten, scen, loop, split,
                   cryptVars>>

\* the thread as it is after its read or write, r being what that left
thread_after(th, r) ==
    [th EXCEPT !.pc = "done", !.at = r.at, !.buf = r.buf, !.count = r.count]

\* a thread that has done its seek does its read or write
RaceAccess ==
    /\ \E t \in RaceThreads :
          /\ race.thr[t].pc = "sought"
          /\ race.mutex => (race.holder = t)
          /\ LET th == race.thr[t]
                 r == access(pico, file, fpos,
                             [op |-> th.op, arg |-> th.arg, buffer |-> th.inbuf])
             IN  /\ file' = r.file
                 /\ fpos' = r.fpos
                 /\ last' = Call(th.op, th.arg, th.inbuf, r)
                 /\ race' = [race EXCEPT
                        !.holder = 0,
                        !.thr = [Disturbed(t) EXCEPT ![t] = thread_after(th, r)]]
    /\ calls' = calls + 1
    /\ UNCHANGED <<alive, pico, prevPutMd, mdWritten, scen, loop, split, cryptVars>>

NextRace == RaceSeek \/ RaceAccess

SpecRace == InitRace /\ [][NextRace]_vars

----------------------------------------------------------------------------
(* The cipher on its own: crypt applied once and twice to a buffer. *)

\* keys handed to crypt: the keys of crypt_test_1, 3 and 4, and the empty key
CryptKeys == {<<>>, <<0>>, <<64, 9>>, <<170, 85, 99, 247, 126>>}

\* bytes of the buffers handed to crypt (the data of crypt_test_3)
CryptBytes == {0, 9, 32, 224}

CryptBuffers == SeqsUpTo(CryptBytes, MaxCryptLen)

CryptPositions == 0..MaxCryptPos

InitCrypt ==
    /\ InitContainer
    /\ cstage = 0
    /\ cpos \in CryptPositions
    /\ ckey \in CryptKeys
    /\ cdata0 \in CryptBuffers
    /\ cdata = cdata0
    /\ cpanic = FALSE

\* a call of crypt without the check of the key length: an empty key stops it
\* at the first remainder only, so an empty buffer comes back untouched
CryptCall_unchecked ==
    /\ cstage < 2
    /\ ~cpanic
    /\ cstage' = cstage + 1
    /\ cpanic' = (Len(ckey) = 0 /\ Len(cdata) > 0)
    /\ cdata' = IF Len(ckey) = 0 THEN cdata ELSE crypt(cpos, cdata, ckey)
    /\ UNCHANGED <<cpos, ckey, cdata0, containerVars>>

\* one call crypt(cpos, cdata, ckey)
CryptCall ==
    /\ cstage < 2
    /\ ~cpanic
    /\ cstage' = cstage + 1
    /\ cpanic' = crypt_panics(ckey)
    /\ cdata' = IF crypt_panics(ckey) THEN cdata ELSE crypt(cpos, cdata, ckey)
    /\ UNCHANGED <<cpos, ckey, cdata0, containerVars>>

NextCrypt == CryptCall

SpecCrypt == InitCrypt /\ [][NextCrypt]_vars

----------------------------------------------------------------------------
(* Properties of the cipher, checked under SpecCrypt. *)

\* the XOR of two bytes, from the low bit up
RECURSIVE XorRef(_, _)
XorRef(a, b) ==
    IF a = 0 /\ b = 0 THEN 0
    ELSE ((a + b) % 2) + 2 * XorRef(a \div 2, b \div 2)

\* C4: for every position, non-empty key and buffer, crypt applied twice with
\* the same position and key leaves the buffer as it was before the first call
C4_CryptInvolution ==
    (cstage = 2 /\ ~cpanic) => cdata = cdata0

\* crypt has run twice over a full-length buffer with a key longer than one
\* byte at a position that is not zero
C4_Witness ==
    /\ cstage = 2
    /\ ~cpanic
    /\ Len(cdata0) = MaxCryptLen
    /\ Len(ckey) > 1
    /\ cpos > 0
    /\ cdata = cdata0

\* C5: after crypt(position, data, key) with a non-empty key the buffer has
\* the length it had, every byte is its old value XOR
\* key[(position + i) mod key.len()], an all-zero key changes nothing, and key
\* [0x40,0x09] at position 0 turns [0x09,0x20,0x00,0xE0] into
\* [0x49,0x29,0x40,0xE9]
C5_CryptResult ==
    (cstage = 1 /\ ~cpanic) =>
        /\ Len(cdata) = Len(cdata0)
        /\ \A i \in 0..(Len(cdata0) - 1) :
              cdata[i + 1] = XorRef(cdata0[i + 1], ckey[((cpos + i) % Len(ckey)) + 1])
        /\ (cdata0 = <<>>) => (cdata = <<>>)
        /\ (\A k \in 1..Len(ckey) : ckey[k] = 0) => (cdata = cdata0)
        /\ (ckey = <<64, 9>> /\ cpos = 0 /\ cdata0 = <<9, 32, 0, 224>>)
              => (cdata = <<73, 41, 64, 233>>)

\* the call of crypt_test_3 has been made and gave the bytes the test expects
C5_Witness ==
    /\ cstage = 1
    /\ ~cpanic
    /\ ckey = <<64, 9>>
    /\ cpos = 0
    /\ cdata0 = <<9, 32, 0, 224>>
    /\ cdata = <<73, 41, 64, 233>>

----------------------------------------------------------------------------
(* Properties of the container, checked under Spec. *)

\* the plaintext of the data region: the store bytes from the data offset to
\* the end of the store, decrypted at data position 0
DataPlain ==
    crypt(0, SubSeq(file, WInt(get_offset(pico)) + 1, Len(file)), get_key(pico))

\* C1: a successful put(p, d) followed at once by get(p, buffer of length
\* len(d)) on the same container returns len(d) and leaves the buffer equal to
\* the plaintext d handed to put
C1_PutGetRoundTrip ==
    (scen.stage = "put_get" /\ last.pos = scen.pos /\ Len(last.inbuf) = Len(scen.plain))
        => /\ last.status = "ok"
           /\ last.count = Len(scen.plain)
           /\ last.buf = scen.plain

\* a put of at least two bytes at a position that is not zero has been read
\* back by a get at the same position and length
C1_Witness ==
    /\ scen.stage = "put_get"
    /\ last.op = "get"
    /\ last.pos = scen.pos
    /\ scen.pos > 0
    /\ Len(scen.plain) >= 2
    /\ Len(last.inbuf) = Len(scen.plain)
    /\ last.buf = scen.plain

\* C2: after every successful put the container's hash is marked invalid
\* (is_hash_valid = false), whatever it was before the put
C2_PutInvalidatesHash ==
    (last.op = "put" /\ last.status = "ok") => ~pico.is_hash_valid

\* C3: after a successful flush the hash field of the header in the store
\* (store bytes 0x0A..0x19) is the digest of the plaintext of the data region
C3_FlushStoresDataDigest ==
    (last.op = "flush" /\ last.status = "ok" /\ Len(get_key(pico)) > 0)
        => SubSeq(file, 11, 10 + HASH_LEN) = Md5(DataPlain)

\* C6: after new, put(p, d) with a non-empty d, flush and open of the same
\* store, the open succeeds, and get(0, buffer of length p + len(d)) on the
\* reopened container returns p + len(d) with buffer[p..] equal to d
C6_PersistsAcrossReopen ==
    /\ (scen.stage = "opened" /\ scen.byNew /\ Len(scen.plain) >= 1)
          => last.status = "ok"
    /\ (scen.stage = "read" /\ scen.byNew /\ Len(scen.plain) >= 1
            /\ last.pos = 0 /\ Len(last.inbuf) = scen.pos + Len(scen.plain))
          => /\ last.status = "ok"
             /\ last.count = scen.pos + Len(scen.plain)
             /\ SubSeq(last.buf, scen.pos + 1, scen.pos + Len(scen.plain)) = scen.plain

\* C7: the hash the container holds after a flush that follows a put equals
\* the hash held by the container that open returns for the same store when
\* nothing happened between the flush and the open
C7_HashStableAcrossReopen ==
    (scen.stage = "opened" /\ last.status = "ok") => get_hash(pico) = scen.hash

\* a container has been reopened right after a put of some bytes and a flush
\* that computed a digest, and holds that digest
C7_Witness ==
    /\ scen.stage = "opened"
    /\ last.op = "open"
    /\ last.status = "ok"
    /\ Len(scen.plain) > 0
    /\ scen.hash # Zeros(HASH_LEN)
    /\ get_hash(pico) = scen.hash

\* C8: put_metadata(start, buf) never fails; it returns
\* min(buf.len(), md_length - start) when start < md_length, and 0 when
\* start >= md_length or md_length = 0
C8_PutMetadataCount ==
    (last.op = "put_metadata") =>
        LET mdlen == get_md_length(pico)
            end == W(last.pos + last.count)
        IN  /\ last.status = "ok"
            /\ IF WLess(W(last.pos), mdlen)
               THEN /\ last.count <= Len(last.inbuf)
                    /\ ~WLess(mdlen, end)
                    /\ (last.count = Len(last.inbuf) \/ end = mdlen)
               ELSE last.count = 0

\* a put_metadata has been cut short by the end of the metadata region
C8_Witness ==
    /\ last.op = "put_metadata"
    /\ last.status = "ok"
    /\ last.count > 0
    /\ last.count < Len(last.inbuf)
    /\ W(last.pos + last.count) = get_md_length(pico)

\* C9: a get_metadata that follows a put_metadata(s, buf) which wrote n bytes
\* returns, at every requested metadata position the write covered, the byte
\* that was written there, and 0 at every requested metadata position that was
\* never written and lies before the end of the store
C9_MetadataReadBack ==
    (last.op = "get_metadata" /\ prevPutMd.valid) =>
        \A i \in 1..Len(last.inbuf) :
            LET q == last.pos + (i - 1)
            IN  /\ (q >= prevPutMd.start /\ q < prevPutMd.start + prevPutMd.n)
                      => /\ i <= last.count
                         /\ last.buf[i] = prevPutMd.buf[q - prevPutMd.start + 1]
                /\ (/\ WLess(W(q), get_md_length(pico))
                    /\ pico.md_start + q < Len(file)
                    /\ (pico.md_start + q) \notin mdWritten)
                      => /\ i <= last.count
                         /\ last.buf[i] = 0

\* a get_metadata right after a put_metadata has returned a byte of that write
\* that is not zero, and a zero from a position nothing was written to
C9_Witness ==
    /\ last.op = "get_metadata"
    /\ prevPutMd.valid
    /\ prevPutMd.n > 0
    /\ \E i \in 1..last.count :
          /\ last.pos + (i - 1) >= prevPutMd.start
          /\ last.pos + (i - 1) < prevPutMd.start + prevPutMd.n
          /\ last.buf[i] # 0
    /\ \E i \in 1..last.count :
          /\ (pico.md_start + last.pos + (i - 1)) \notin mdWritten
          /\ last.buf[i] = 0

\* C10: get_metadata(start, buffer) returns 0 and touches neither the store
\* nor the buffer when md_length = 0 or start >= md_length; otherwise it
\* returns at most min(buffer.len(), md_length - start), reads no store byte at
\* or beyond the data offset, and leaves the buffer bytes from index
\* min(buffer.len(), md_length - start) on as they were
C10_GetMetadataBounds ==
    (last.op = "get_metadata") =>
        LET mdlen == get_md_length(pico)
            lim == WMinInt(WSub(mdlen, W(last.pos)), Len(last.inbuf))
        IN  /\ last.status = "ok"
            /\ IF mdlen = W(0) \/ ~WLess(W(last.pos), mdlen)
               THEN /\ last.count = 0
                    /\ last.at = NoAt
                    /\ last.buf = last.inbuf
               ELSE /\ last.count <= lim
                    /\ (last.count > 0)
                          => ~WLess(get_offset(pico), Advance(last.at, last.count))
                    /\ \A i \in (lim + 1)..Len(last.inbuf) : last.buf[i] = last.inbuf[i]

\* C11: new called with a key of length 0 fails and returns no container, so
\* every container that exists has a key of at least one byte
C11_EmptyKeyRejected ==
    /\ (last.op = "new" /\ Len(last.inbuf) = 0) => (last.status # "ok" /\ ~alive)
    /\ alive => Len(get_key(pico)) >= 1

\* C12: every container that exists has md_start = 28 + key.len(),
\* offset >= md_start and md_length = offset - md_start, whatever key and
\* reserved metadata length new was given
C12_OffsetBookkeeping ==
    alive =>
        /\ pico.md_start = 28 + Len(get_key(pico))
        /\ ~WLess(get_offset(pico), W(pico.md_start))
        /\ pico.md_length = WSub(get_offset(pico), W(pico.md_start))

\* the fields of the header as the store holds them, most significant byte
\* first
Stored16(i) == file[i] * 256 + file[i + 1]

StoredMagic == Stored16(1)

StoredMajor == Stored16(3)

StoredMinor == Stored16(5)

StoredOffset == <<Stored16(7), Stored16(9)>>

StoredKeyLength == Stored16(27)

\* C13: on a store with the right magic, a supported major and a non-zero key
\* length, open fails with BadOffset carrying the stored offset and
\* 28 + keyLength exactly when the stored offset is below 28 + keyLength, and
\* otherwise succeeds with md_length = offset - (28 + keyLength)
C13_BadOffsetGate ==
    (/\ last.op = "open"
     /\ Len(file) >= 28
     /\ StoredMagic = 37312
     /\ StoredMajor <= 1
     /\ StoredKeyLength # 0) =>
        IF StoredOffset[1] = 0 /\ StoredOffset[2] < 28 + StoredKeyLength
        THEN /\ last.status = "err"
             /\ last.err = "BadOffset"
             /\ last.at = StoredOffset
             /\ last.count = 28 + StoredKeyLength
             /\ ~alive
        ELSE /\ last.status = "ok"
             /\ alive
             /\ pico.md_length = WSub(StoredOffset, W(28 + StoredKeyLength))

C13_Witness ==
    /\ last.op = "open"
    /\ Len(file) >= 28
    /\ StoredKeyLength = 2
    /\ StoredOffset = W(29)
    /\ last.err = "BadOffset"
    /\ last.count = 30

\* C14: on a store with the right magic, open fails with BadVersion, carrying
\* the stored major and minor, exactly when the stored major is above 1; the
\* minor and a major below 1 never reject
C14_VersionGate ==
    (/\ last.op = "open"
     /\ Len(file) >= 6
     /\ StoredMagic = 37312) =>
        /\ (last.err = "BadVersion") <=> (StoredMajor > 1)
        /\ (last.err = "BadVersion") =>
              (last.status = "err" /\ last.count = StoredMajor /\ last.at = W(StoredMinor))
        /\ (StoredMajor <= 1 /\ last.status = "ok") =>
              (pico.major = StoredMajor /\ pico.minor = StoredMinor)

C14_Witness ==
    /\ last.op = "open"
    /\ Len(file) >= 6
    /\ StoredMagic = 37312
    /\ StoredMajor = 2
    /\ StoredMinor = 7
    /\ last.err = "BadVersion"

\* C15: a container returned by new holds an invalid hash; a container
\* returned by open holds a valid hash equal to the 16 bytes of the header's
\* hash field, and open has read nothing at or after the offset
C15_InitialHashState ==
    /\ (last.op = "new" /\ last.status = "ok") => ~pico.is_hash_valid
    /\ (last.op = "open" /\ last.status = "ok") =>
          /\ pico.is_hash_valid
          /\ pico.hash = SubSeq(file, 11, 26)
          /\ ~WLess(get_offset(pico), fpos)

\* open on a store with a non-empty data region and a non-zero stored hash
C15_Witness ==
    /\ last.op = "open"
    /\ last.status = "ok"
    /\ pico.is_hash_valid
    /\ pico.hash # Zeros(16)
    /\ WLess(get_offset(pico), W(Len(file)))

\* the two bytes of a 16-bit number, most significant first
BigEndian16(n) == <<n \div 256, n % 256>>

\* the header of container p as the format lays it out
HeaderLayout(p) ==
    <<145, 192>> \o BigEndian16(p.major) \o BigEndian16(p.minor)
        \o BigEndian16(p.offset[1]) \o BigEndian16(p.offset[2])
        \o p.hash \o BigEndian16(Len(p.key)) \o p.key

\* the container open' returned holds what container p held
SameHeaderFields(p, q) ==
    /\ q.major = p.major
    /\ q.minor = p.minor
    /\ q.offset = p.offset
    /\ q.hash = p.hash
    /\ q.key = p.key
    /\ q.md_length = p.md_length

\* C16: after new and after flush the store starts with the 28 + key.len()
\* bytes of the header in the order magic, major, minor, offset, hash, key
\* length, key, most significant byte first, and open on that store returns a
\* container with the same version, offset, hash, key and md_length
C16_HeaderRoundTrip ==
    [][/\ (last'.op \in {"new", "flush"} /\ last'.status = "ok") =>
              /\ Len(file') >= 28 + Len(pico'.key)
              /\ SubSeq(file', 1, 28 + Len(pico'.key)) = HeaderLayout(pico')
       /\ (last.op \in {"new", "flush"} /\ last.status = "ok" /\ last'.op = "open") =>
              /\ last'.status = "ok"
              /\ SameHeaderFields(pico, pico')]_vars

C18_MetadataInTheClear ==
    /\ (last.op = "put_metadata" /\ last.count > 0) =>
          \A i \in 1..last.count :
              file[pico.md_start + last.pos + i] = last.inbuf[i]
    /\ (last.op = "get_metadata" /\ last.count > 0) =>
          \A i \in 1..last.count :
              last.buf[i] = file[pico.md_start + last.pos + i]

\* put_metadata wrote two bytes that the key of the container would change
C18_Witness ==
    /\ last.op = "put_metadata"
    /\ last.count = 2
    /\ get_key(pico) = <<64, 9>>
    /\ last.inbuf = <<9, 32>>
    /\ SubSeq(file, pico.md_start + last.pos + 1, pico.md_start + last.pos + 2) = <<9, 32>>

\* the error kind that belongs to a failed primitive
KindOf(prim) ==
    IF prim = "seek" THEN "SeekFailed"
    ELSE IF prim = "read" THEN "ReadFailed"
    ELSE "WriteFailed"

\* C19: whenever a store primitive fails inside an operation, the error the
\* operation returns is of the kind of that primitive: SeekFailed for a seek,
\* ReadFailed for a read, WriteFailed for a write or a flush
C19_ErrorKindMatchesPrimitive ==
    (/\ last.status = "err"
     /\ last.err \in {"SeekFailed", "ReadFailed", "WriteFailed"}) =>
        last.err = KindOf(SitePrimitive(last.count))

\* C20: a call of crypt with an empty key panics, whatever the position and
\* the buffer, the empty buffer included; it never returns
C20_EmptyKeyPanics ==
    (cstage >= 1 /\ Len(ckey) = 0) =>
        /\ cpanic
        /\ cstage = 1
        /\ cdata = cdata0

\* crypt has been called with an empty key on an empty buffer
C20_Witness ==
    /\ cstage = 1
    /\ ckey = <<>>
    /\ cdata0 = <<>>
    /\ cpos = 1
    /\ cpanic

\* C21: when flush recomputes the hash (the hash was invalid) of a container
\* whose data offset lies after its header, the bytes handed to the digest are
\* exactly the plaintext of the data region, store length minus data offset
\* bytes in all, whatever the length of the data
C21_RecomputeFeedsDataRegion ==
    (/\ last.op = "flush" /\ last.status = "ok" /\ ~last.valid0
     /\ ~WLess(get_offset(pico), W(pico.md_start))) =>
        /\ Len(last.fed) = Max(0, Len(file) - WInt(get_offset(pico)))
        /\ last.fed = DataPlain

\* C22: a flush that comes right after new, on a container with a non-empty
\* key and whatever metadata length, finds an empty data region: it feeds
\* nothing to the digest, sets the hash to the digest of the empty byte string
\* and marks it valid
C22_EmptyDataRegion ==
    [][(/\ last.op = "new" /\ last.status = "ok"
        /\ Len(get_key(pico)) > 0
        /\ last'.op = "flush") =>
            /\ last'.status = "ok"
            /\ last'.fed = <<>>
            /\ pico'.hash = EmptyDigest
            /\ pico'.is_hash_valid]_vars

\* C23: a flush of a container whose hash is valid feeds nothing to the
\* digest, keeps the hash field and writes it to the header as it is; after
\* open and flush the hash bytes of the store are those open found, whether or
\* not they are the digest of the data region
C23_ValidHashNotRecomputed ==
    [][(alive /\ pico.is_hash_valid /\ last'.op = "flush") =>
            /\ last'.status = "ok"
            /\ last'.fed = <<>>
            /\ pico'.hash = pico.hash
            /\ pico'.is_hash_valid
            /\ SubSeq(file', 11, 26) = pico.hash
            /\ (last.op = "open" => SubSeq(file', 11, 26) = SubSeq(file, 11, 26))]_vars

\* a reopened container has been flushed while its stored hash was not what a
\* recomputation over its data region would give
C23_Witness ==
    /\ last.op = "flush"
    /\ last.status = "ok"
    /\ last.valid0
    /\ scen.origin = "open"
    /\ WLess(get_offset(pico), W(Len(file)))
    /\ SubSeq(file, 11, 26) # Md5(check_hash_loop(pico, file, fpos, 0, Zeros(CHUNK_SIZE), <<>>).fed)

\* check_hash run once more, from an invalid hash, on what a first run c left
SecondRecompute(c) == check_hash([c.pico EXCEPT !.is_hash_valid = FALSE], c.file, c.fpos)

SameOutcome(c, d) ==
    /\ d.status = "ok"
    /\ d.file = c.file
    /\ d.pico = c.pico
    /\ d.fed = c.fed

\* a first run c of check_hash on store f left the store alone and the hash
\* valid, and a second run agrees with it
Recomputable(f, c) ==
    (c.status = "ok") =>
        /\ c.file = f
        /\ c.pico.is_hash_valid
        /\ SameOutcome(c, SecondRecompute(c))

\* C24: when flush recomputes from an invalid hash, the recomputation leaves
\* the store as it is and the hash valid, and a second recomputation from an
\* invalid hash over that store gives the same hash; a flush right after a
\* successful flush leaves the hash, its validity and every byte of the store
\* unchanged
C24_RecomputeIdempotent ==
    [][/\ (alive /\ ~pico.is_hash_valid /\ last'.op = "flush") =>
              Recomputable(file, check_hash(pico, file, fpos))
       /\ (last.op = "flush" /\ last.status = "ok" /\ last'.op = "flush") =>
              /\ last'.status = "ok"
              /\ pico.is_hash_valid
              /\ pico' = pico
              /\ file' = file]_vars

\* a container from new that holds data has been flushed while its hash was
\* already valid, that is, after an earlier flush
C24_Witness ==
    /\ last.op = "flush"
    /\ last.status = "ok"
    /\ last.valid0
    /\ scen.origin = "new"
    /\ WLess(get_offset(pico), W(Len(file)))
    /\ pico.hash # EmptyDigest

\* C25: check_hash ends on every store; after a get that returned a positive
\* count, short or not, the loop goes on with the position raised by that
\* count, and it leaves the loop at the first get that returns 0
C25_RecomputeTerminates ==
    /\ [][(loop.stage = "loop" /\ last'.op = "get" /\ loop'.gets = loop.gets + 1
              /\ last'.status = "ok") =>
             IF last'.count > 0
             THEN /\ loop'.stage = "loop"
                  /\ loop'.position = loop.position + last'.count
                  /\ last'.pos = loop.position
             ELSE loop'.stage = "hash"]_vars
    /\ <>(loop.stage \in {"done", "panic"})

\* check_hash has ended after three gets, the second of them short
C25_Witness ==
    /\ loop.stage = "done"
    /\ loop.gets = 3
    /\ loop.position % CHUNK_SIZE # 0
    /\ loop.position > CHUNK_SIZE
    /\ pico.is_hash_valid

\* C26: get, get_metadata and put_metadata, whether they return Ok or an
\* error, leave the hash field and is_hash_valid as they were, be the hash
\* valid or not
C26_HashFrame ==
    [][(alive /\ last'.op \in {"get", "get_metadata", "put_metadata"}) =>
            /\ pico'.hash = pico.hash
            /\ pico'.is_hash_valid = pico.is_hash_valid]_vars

\* put_metadata has written bytes on a container that holds a valid hash
\* computed by flush
C26_Witness ==
    /\ last.op = "put_metadata"
    /\ last.status = "ok"
    /\ last.count > 0
    /\ last.valid0
    /\ pico.is_hash_valid
    /\ pico.hash # Zeros(16)

\* C27: open checks magic, major, key length and offset in this order and
\* returns the error of the first check that fails: NotPico with the value
\* found when the magic is wrong, whatever the other fields hold, and KeyError
\* when the key length is zero, whatever the offset
C27_ValidationOrder ==
    (last.op = "open" /\ Len(file) >= 28) =>
        IF StoredMagic # 37312
        THEN last.status = "err" /\ last.err = "NotPico" /\ last.count = StoredMagic
        ELSE IF StoredMajor > 1
        THEN last.status = "err" /\ last.err = "BadVersion"
        ELSE IF StoredKeyLength = 0
        THEN last.status = "err" /\ last.err = "KeyError"
        ELSE IF StoredOffset[1] = 0 /\ StoredOffset[2] < 28 + StoredKeyLength
        THEN last.status = "err" /\ last.err = "BadOffset"
        ELSE last.status = "ok"

\* open has met a header of which every checked field is bad
C27_Witness ==
    /\ last.op = "open"
    /\ Len(file) >= 28
    /\ StoredMagic = 37313
    /\ StoredMajor = 2
    /\ StoredKeyLength = 0
    /\ StoredOffset = W(0)
    /\ last.err = "NotPico"
    /\ last.count = 37313

\* C28: when a seek or a read fails inside the recomputation that flush runs,
\* flush returns that error, the store is as it was (no header byte has been
\* written), the hash field keeps its value and is_hash_valid stays false
C28_RecomputeFailure ==
    [][(/\ alive
        /\ last'.op = "flush"
        /\ last'.status = "err"
        /\ last'.count \in {1014, 1015}) =>
            /\ last'.err = IF last'.count = 1014 THEN "SeekFailed" ELSE "ReadFailed"
            /\ file' = file
            /\ pico'.hash = pico.hash
            /\ ~pico.is_hash_valid
            /\ ~pico'.is_hash_valid]_vars

\* the read of the second get of a recomputation has failed, after the first
\* get had handed data to the digest
C28_Witness ==
    /\ last.op = "flush"
    /\ last.status = "err"
    /\ last.err = "ReadFailed"
    /\ last.count = 1015
    /\ last.fed # <<>>
    /\ pico.hash = Zeros(16)
    /\ ~pico.is_hash_valid

\* C29: put_metadata changes, or brings into being, only store bytes of the
\* metadata region [md_start, offset), whatever the start and the length of
\* the buffer; put changes no store byte below offset
C29_RegionIsolation ==
    [][/\ (alive /\ last'.op = "put_metadata") =>
            \A i \in 1..Len(file') :
                (i > Len(file) \/ file'[i] # file[i]) =>
                    /\ i > pico.md_start
                    /\ WLess(W(i - 1), get_offset(pico))
       /\ (alive /\ last'.op = "put") =>
            \A i \in 1..Len(file) :
                WLess(W(i - 1), get_offset(pico)) => file'[i] = file[i]]_vars

\* C30: a flush that returns Ok changes, or brings into being, only store
\* bytes of [0, 28 + key.len()), leaves every byte of the data region (the
\* bytes from offset on) as it was, the store then starts with the encoding of
\* the version, offset, hash and key the container holds, and is_hash_valid is
\* true
C30_FlushWritesOnlyHeader ==
    [][(alive /\ last'.op = "flush" /\ last'.status = "ok") =>
            /\ \A i \in 1..Len(file') :
                    (i > Len(file) \/ file'[i] # file[i]) => i <= 28 + Len(pico.key)
            /\ \A i \in 1..Len(file) :
                    ~WLess(W(i - 1), get_offset(pico)) => file'[i] = file[i]
            /\ Len(file') >= 28 + Len(pico'.key)
            /\ SubSeq(file', 1, 28 + Len(pico'.key)) = HeaderLayout(pico')
            /\ pico'.is_hash_valid]_vars

\* C32: when get returns a count smaller than the length of its buffer (the
\* data ended, count 0 included), the buffer bytes from index count on are
\* what they were before the call
C32_ShortReadFrame ==
    (/\ last.op = "get"
     /\ last.status = "ok"
     /\ last.count < Len(last.inbuf)) =>
        \A i \in (last.count + 1)..Len(last.inbuf) : last.buf[i] = last.inbuf[i]

\* C31: once a plaintext has been written at data position p by puts of
\* consecutive pieces, however it was cut, the store is the store one put of
\* the whole plaintext at p leaves, the store byte of data position q is
\* plaintext[q] XOR key[q mod key.len()], and gets at consecutive positions,
\* whatever their buffer lengths, hand back the plaintext
C31_ChunkingIndependence ==
    /\ split.stage \in {"get", "done"} =>
          /\ file = put(pico, split.base, W(0), split.position, split.plain).file
          /\ \A q \in 1..Len(split.plain) :
                file[WInt(get_offset(pico)) + split.position + q]
                    = XorRef(split.plain[q],
                             pico.key[((split.position + q - 1) % Len(pico.key)) + 1])
    /\ split.stage # "short"
    /\ split.stage = "done" => split.read = split.plain

\* three bytes at an odd position were written by two puts and read back by
\* two gets that cut them elsewhere, on a store that already held data
C31_Witness ==
    /\ split.stage = "done"
    /\ split.position = 1
    /\ split.puts = <<1, 2>>
    /\ split.gets = <<2, 1>>
    /\ Len(split.base) > WInt(get_offset(pico))
    /\ split.read = split.plain

\* C33: after new has returned a container for a key of at least one byte,
\* the key length field of the header the store holds is key.len(), and open
\* on that store returns a container whose key has that length
C33_KeyLengthFaithful ==
    (last.op = "new" /\ last.status = "ok" /\ Len(last.inbuf) > 0) =>
        /\ StoredKeyLength = Len(last.inbuf)
        /\ open(file, W(0)).status = "ok"
        /\ Len(open(file, W(0)).pico.key) = Len(last.inbuf)

\* C34: open returns a container only when the store holds the 28 bytes of
\* the fixed header and the key bytes its key length field announces; on a
\* store that ends before, open fails
C34_TruncatedStoreRejected ==
    (last.op = "open" /\ last.status = "ok") =>
        /\ Len(file) >= 28
        /\ Len(file) >= 28 + StoredKeyLength
        /\ pico.key = SubSeq(file, 29, 28 + StoredKeyLength)

\* C35: an operation whose read or write went to an offset other than the
\* one it computed had another thread's seek, read or write between its own
\* seek and its access, and its callers used no lock; with a lock around each
\* operation every access goes to the offset computed
C35_MisplacedOnlyWhenInterleaved ==
    \A t \in RaceThreads :
        (/\ race.thr[t].pc = "done"
         /\ race.thr[t].computed # NoAt
         /\ race.thr[t].at # race.thr[t].computed) =>
            (race.thr[t].cut /\ ~race.mutex)

\* without a lock, the put of thread 1 wrote its bytes at the offset thread 2
\* had sought, the data at the offset it computed are not the bytes it sealed,
\* and the get of thread 2 read from where that write had left the cursor
C35_Witness ==
    /\ ~race.mutex
    /\ race.thr[1].pc = "done"
    /\ race.thr[1].op = "put"
    /\ race.thr[1].at # race.thr[1].computed
    /\ SubSeq(file, WInt(race.thr[1].computed) + 1,
              WInt(race.thr[1].computed) + Len(race.thr[1].inbuf)) # race.thr[1].buf
    /\ race.thr[2].pc = "done"
    /\ race.thr[2].op = "get"
    /\ race.thr[2].at # race.thr[2].computed

====
